---- MODULE Spec2Model ----
(***************************************************************************)
(* A model of packages/config/src/utils.ts of graphql-mesh (and of its     *)
(* earlier revision): the convention-based package search (getPackage and  *)
(* its callers), the method-call resolver built by                         *)
(* resolveAdditionalResolvers, the return-data extractor                   *)
(* (resolveReturnData), the compilation of descriptors into one resolver   *)
(* map, and the subscribe function of a subscription descriptor with the   *)
(* pub/sub bus behind it.                                                  *)
(*                                                                         *)
(* Strings are sequences of characters.  The alphabet has one lower-case   *)
(* letter "a", one upper-case letter "B" (lower-cased to "b"), one digit   *)
(* "1" and the separators "-" and "_".  A category word ("handler", ...)   *)
(* and the fixed prefixes are single tokens.                               *)
(***************************************************************************)
EXTENDS Integers, Sequences, FiniteSets, TLC

VARIABLES
    \* ---- getPackage and its callers
    caller,          \* which exported function is running ("none" before a call)
    requested,       \* the name as the caller's configuration supplied it
    name,            \* getPackage's `name` parameter
    type,            \* getPackage's `type` parameter
    possibleModules, \* the candidate list built by getPackage
    idx,             \* position of the for-of loop in possibleModules
    pkgPc,           \* "idle" | "loop" | "awaiting" | "returned" | "thrown" | "done" | "builtin"
    probes,          \* importFn calls made so far: <<[at, id, outcome]>>
    pkgResult,       \* value returned by getPackage (Undefined until then)
    pkgError,        \* error thrown by getPackage  (NoError until then)
    errMessage,      \* err.message of the latest rejection caught in the loop
    callerResult,    \* value returned by the exported caller
    config,          \* the configuration handed to the constructor ("undefined" if none)
    \* ---- the method-call resolver
    revision,        \* "utils" (with fan-out) | "part_000" (earlier revision)
    returnData,      \* the descriptor's returnData path ("none" when absent)
    methodArgs,      \* [isArray, n]: the normalised arguments
    resPc,           \* "idle" | "joining" | "fulfilled" | "rejected"
    apiCalls,        \* backend calls issued: <<[args, opts]>>
    settled,         \* per call: "pending" | "fulfilled" | "rejected"
    apiResult,       \* per call: the value the backend call produced
    results,         \* per call: what the map callback returned (Promise.all slots)
    completion,      \* order in which the backend calls completed
    fieldResult,     \* what the resolver returned / why it rejected
    \* ---- resolveAdditionalResolvers (compilation)
    descriptors,     \* the additionalResolvers list
    cmpPc,           \* "idle" | "joining" | "done" | "failed"
    taskState,       \* per descriptor: "pending" | "done" | "failed"
    loadedResolvers, \* per descriptor: its contribution
    fileExports,     \* per descriptor: what importFn resolved to ("-": nothing yet)
    cmpError,        \* the descriptor whose failed load rejected the compilation (0: none)
    finished,        \* order in which the descriptor tasks finished
    warned,          \* descriptors for which console.warn was called
    resolverMap,     \* the merged map returned
    \* ---- one subscription field and the pub/sub bus behind it
    subPc,           \* "idle" | "ready" (the subscription descriptor was compiled)
    pubsubTopic,     \* the descriptor's pubsubTopic template
    filterBy,        \* the descriptor's filterBy ("none" when absent)
    subReturnData,   \* the descriptor's returnData path ("none" when absent)
    subscribers,     \* subscription requests: <<[args, topic, since, events]>>
    published        \* what was published on the bus: <<[topic, payload]>>

pkgVars == <<caller, requested, name, type, possibleModules, idx, pkgPc, probes,
             pkgResult, pkgError, errMessage, callerResult, config>>
resVars == <<revision, returnData, methodArgs, resPc, apiCalls, settled, apiResult,
             results, completion, fieldResult>>
cmpVars == <<descriptors, cmpPc, taskState, loadedResolvers, fileExports, cmpError,
             finished, warned, resolverMap>>
subVars == <<subPc, pubsubTopic, filterBy, subReturnData, subscribers, published>>
vars == <<pkgVars, resVars, cmpVars, subVars>>

\* ------------------------------------------------------------------ bounds
MaxNameLen == 2
MaxFanOut == 2
MaxDescriptors == 2
MaxSubscribers == 2
MaxPublishes == 2

\* ------------------------------------------------------------------ strings
Lowers == {"a", "b"}
Uppers == {"B"}
Digits == {"1"}
Separators == {"-", "_"}
Alphabet == {"a", "B", "1", "-", "_"}
Types == {"handler", "cache", "pubsub", "merger"}

RECURSIVE SeqsUpTo(_, _)
SeqsUpTo(S, n) ==
    IF n = 0 THEN {<<>>}
    ELSE LET shorter == SeqsUpTo(S, n - 1)
         IN  shorter \cup {Append(s, c) : s \in {t \in shorter : Len(t) = n - 1}, c \in S}

\* Longer names that exercise the upper-upper-lower split and a name that is already
\* in dash-separated form.
LongNames == { <<"B", "B", "a">>, <<"a", "-", "a">>, <<"a", "_", "B">> }

\* The names a configuration can supply: they hold at least one letter or digit.
Names ==
    {s \in SeqsUpTo(Alphabet, MaxNameLen) \cup LongNames :
        \E i \in 1..Len(s) : s[i] \in Alphabet \ Separators}

\* A category word is a run of lower-case letters.
IsLower(c) == c \in Lowers \cup Types
IsUpper(c) == c \in Uppers
IsDigit(c) == c \in Digits
IsLetter(c) == IsLower(c) \/ IsUpper(c)
IsAlnum(c) == IsLetter(c) \/ IsDigit(c)
ToLower(c) == IF c = "B" THEN "b" ELSE c

\* no-case's two split patterns, /([a-z0-9])([A-Z])/ and /([A-Z])([A-Z][a-z])/:
\* is there a word break between s[i] and s[i+1]?
CamelBreak(s, i) ==
    \/ (IsLower(s[i]) \/ IsDigit(s[i])) /\ IsUpper(s[i + 1])
    \/ IsUpper(s[i]) /\ IsUpper(s[i + 1]) /\ i + 2 <= Len(s) /\ IsLower(s[i + 2])

\* lodash's words() also breaks between a letter and a digit.
DigitBreak(s, i) ==
    \/ IsLetter(s[i]) /\ IsDigit(s[i + 1])
    \/ IsDigit(s[i]) /\ IsLetter(s[i + 1])

RECURSIVE SplitWords(_, _, _, _, _)
SplitWords(s, i, cur, acc, digitBreaks) ==
    LET flushed == IF cur = <<>> THEN acc ELSE Append(acc, cur)
    IN  IF i > Len(s) THEN flushed
        ELSE IF ~IsAlnum(s[i]) THEN SplitWords(s, i + 1, <<>>, flushed, digitBreaks)
        ELSE IF /\ cur # <<>>
                /\ (CamelBreak(s, i - 1) \/ (digitBreaks /\ DigitBreak(s, i - 1)))
             THEN SplitWords(s, i + 1, <<ToLower(s[i])>>, flushed, digitBreaks)
        ELSE SplitWords(s, i + 1, Append(cur, ToLower(s[i])), acc, digitBreaks)

RECURSIVE JoinDash(_)
JoinDash(ws) ==
    IF ws = <<>> THEN <<>>
    ELSE IF Len(ws) = 1 THEN ws[1]
    ELSE ws[1] \o <<"-">> \o JoinDash(Tail(ws))

\* paramCase of param-case: split camel case, strip non-alphanumerics, lower-case,
\* join with "-".
paramCase(s) == JoinDash(SplitWords(s, 1, <<>>, <<>>, FALSE))

\* kebabCase of lodash: words() (which also separates digits), lower-case, join "-".
kebabCase(s) == JoinDash(SplitWords(s, 1, <<>>, <<>>, TRUE))

Includes(s, c) == \E i \in 1..Len(s) : s[i] = c

\* path.resolve(process.cwd(), name): no name of the alphabet is absolute or has
\* dot segments, so the result is the working directory joined with the name.
resolveCwd(s) == <<"{cwd}/">> \o s

\* ------------------------------------------------------------------ module values
\* A value that came out of a loaded module: `of` is the module identifier, `path`
\* the member path from the module's exports, `default`/`parser` say whether the
\* value itself has a truthy member of that name ("nested": a default member that
\* has a truthy default member of its own).
Undefined == [of |-> <<>>, path |-> <<"undefined">>, default |-> "absent", parser |-> "absent"]

Truthy(v) == v # Undefined

\* What importFn can resolve to: the exports object of the module `id`.
ExportShapes == [default : {"absent", "plain", "nested"}, parser : {"absent", "present"}]

Exported(id, shape) ==
    [of |-> id, path |-> <<>>, default |-> shape.default, parser |-> shape.parser]

\* v.default
DefaultOf(v) ==
    IF v.default = "absent" THEN Undefined
    ELSE [of |-> v.of, path |-> Append(v.path, "default"),
          default |-> IF v.default = "nested" THEN "plain" ELSE "absent",
          parser |-> "absent"]

\* v.parser
ParserOf(v) ==
    IF v.parser = "absent" THEN Undefined
    ELSE [of |-> v.of, path |-> Append(v.path, "parser"),
          default |-> "absent", parser |-> "absent"]

\* a || b
Or(a, b) == IF Truthy(a) THEN a ELSE b

\* new Ctor(cfg)
New(ctor, cfg) == [instanceOf |-> ctor, config |-> cfg]

\* ------------------------------------------------------------------ getPackage
Scope == <<"@graphql-mesh/">>
Dash == <<"-">>

PossibleModules_UnscopedFirst(n, t) ==
    LET casedName == paramCase(n)
        casedType == paramCase(<<t>>)
        possibleNames ==
            << casedName,
               casedName \o Dash \o casedType,
               casedType \o Dash \o casedName,
               casedType,
               Scope \o casedName,
               Scope \o casedName \o Dash \o casedType,
               Scope \o casedType \o Dash \o casedName >>
        pushed == IF Includes(n, "-") THEN Append(possibleNames, n) ELSE possibleNames
    IN  Append(pushed, resolveCwd(n))

PossibleModules(n, t) ==
    LET casedName == paramCase(n)
        casedType == paramCase(<<t>>)
        possibleNames ==
            << Scope \o casedName,
               Scope \o casedName \o Dash \o casedType,
               Scope \o casedType \o Dash \o casedName,
               casedName,
               casedName \o Dash \o casedType,
               casedType \o Dash \o casedName,
               casedType >>
        pushed == IF Includes(n, "-") THEN Append(possibleNames, n) ELSE possibleNames
    IN  Append(pushed, resolveCwd(n))

\* An error message is the set of the fragments (of interest to getPackage) that it
\* contains.
CannotFindFragment(id) == [text |-> "Cannot find module", id |-> id]
CouldNotLocateFragment == [text |-> "Could not locate module", id |-> <<>>]
Dependency == <<"{dependency}">>

\* How a load can fail: the probed module is missing (the loader says so naming it, or
\* says it could not locate it), or it is present but broken (one of its own imports
\* is missing, or anything else).
Rejections ==
    { [why |-> "missing", says |-> "cannot find this"],
      [why |-> "missing", says |-> "could not locate"],
      [why |-> "broken",  says |-> "cannot find dependency"],
      [why |-> "broken",  says |-> "other"] }

\* err.message of a rejection of importFn(moduleName)
Message(rejection, moduleName) ==
    CASE rejection.says = "cannot find this" -> {CannotFindFragment(moduleName)}
      [] rejection.says = "could not locate" -> {CouldNotLocateFragment}
      [] rejection.says = "cannot find dependency" -> {CannotFindFragment(Dependency)}
      [] OTHER -> {}

IsModuleNotFound_SwallowAll(message, moduleName) == TRUE

IsModuleNotFound_AnyCannotFind(message, moduleName) ==
    \/ \E fragment \in message : fragment.text = "Cannot find module"
    \/ CouldNotLocateFragment \in message

\* the negation of the catch block's condition
IsModuleNotFound(message, moduleName) ==
    \/ CannotFindFragment(moduleName) \in message
    \/ CouldNotLocateFragment \in message

ReturnValue_ParserFirst(exported) == Or(ParserOf(exported), Or(DefaultOf(exported), exported))

ReturnValue_NoParser(exported) == Or(DefaultOf(exported), exported)

\* exported.default || exported.parser || exported
ReturnValue(exported) == Or(DefaultOf(exported), Or(ParserOf(exported), exported))

NoError == [text |-> "none", type |-> "", name |-> <<>>, cause |-> {}]
UnableToLoad(t, n, message) == [text |-> "Unable to load", type |-> t, name |-> n, cause |-> message]
UnableToFind(t, n) == [text |-> "Unable to find", type |-> t, name |-> n, cause |-> {}]

Probe(i, id) == [at |-> i, id |-> id, outcome |-> "pending", shape |-> "-"]

LastProbe == probes[Len(probes)]

SetLast(outcome, shape) ==
    [probes EXCEPT ![Len(probes)] = [@ EXCEPT !.outcome = outcome, !.shape = shape]]

\* the call of getPackage(n, t, importFn) up to the loop
EnterGetPackage(c, original, n, t, cfg) ==
    /\ pkgPc = "idle"
    /\ caller' = c
    /\ requested' = original
    /\ name' = n
    /\ type' = t
    /\ config' = cfg
    /\ possibleModules' = PossibleModules(n, t)
    /\ idx' = 1
    /\ pkgPc' = "loop"
    /\ UNCHANGED <<probes, pkgResult, pkgError, callerResult>>
    /\ UNCHANGED errMessage
    /\ UNCHANGED <<resVars, cmpVars, subVars>>

getHandler ==
    \E n \in Names : EnterGetPackage("getHandler", n, n, "handler", "undefined")

resolveCache ==
    \E n \in Names : EnterGetPackage("resolveCache", n, kebabCase(n), "cache", "config")

resolvePubSub ==
    \E n \in Names, cfg \in {"undefined", "config"} :
        EnterGetPackage("resolvePubSub", n, kebabCase(n), "pubsub", cfg)

resolveMerger ==
    \E n \in Names : EnterGetPackage("resolveMerger", n, n, "merger", "undefined")

\* the built-in defaults: new InMemoryLRUCache() (the default export of a module
\* imported natively, not through importFn), new PubSub({ eventEmitter }), and the
\* StitchingMerger function itself
BuiltIn(c) ==
    CASE c = "resolveCache" -> New([builtin |-> "InMemoryLRUCache"], "undefined")
      [] c = "resolvePubSub" -> New([builtin |-> "PubSub"], "eventEmitter")
      [] OTHER -> [builtin |-> "StitchingMerger"]

ResolveDefault_ViaLoader ==
    /\ pkgPc = "idle"
    /\ \E c \in {"resolveCache", "resolvePubSub", "resolveMerger"} :
        /\ caller' = c
        /\ callerResult' = BuiltIn(c)
    /\ probes' = Append(probes, [at |-> 1, id |-> <<"{default}">>, outcome |-> "loaded",
                                  shape |-> "-"])
    /\ pkgPc' = "builtin"
    /\ UNCHANGED <<requested, name, type, config, possibleModules, idx,
                   pkgResult, pkgError>>
    /\ UNCHANGED errMessage
    /\ UNCHANGED <<resVars, cmpVars, subVars>>

\* resolveCache, resolvePubSub and resolveMerger without configuration
ResolveDefault ==
    /\ pkgPc = "idle"
    /\ \E c \in {"resolveCache", "resolvePubSub", "resolveMerger"} :
        /\ caller' = c
        /\ callerResult' = BuiltIn(c)
    /\ pkgPc' = "builtin"
    /\ UNCHANGED <<requested, name, type, config, possibleModules, idx, probes,
                   pkgResult, pkgError>>
    /\ UNCHANGED errMessage
    /\ UNCHANGED <<resVars, cmpVars, subVars>>

\* importFn(moduleName) is called and awaited
ImportCall ==
    /\ pkgPc = "loop"
    /\ idx <= Len(possibleModules)
    /\ probes' = Append(probes, Probe(idx, possibleModules[idx]))
    /\ pkgPc' = "awaiting"
    /\ UNCHANGED <<caller, requested, name, type, config, possibleModules, idx,
                   pkgResult, pkgError, callerResult>>
    /\ UNCHANGED errMessage
    /\ UNCHANGED <<resVars, cmpVars, subVars>>

ImportResolve_KeepSearching(shape) ==
    /\ pkgPc = "awaiting"
    /\ probes' = SetLast("loaded", shape)
    /\ pkgResult' = ReturnValue(Exported(LastProbe.id, shape))
    /\ idx' = idx + 1
    /\ pkgPc' = IF idx < Len(possibleModules) THEN "loop" ELSE "returned"
    /\ UNCHANGED <<caller, requested, name, type, config, possibleModules,
                   pkgError, callerResult>>
    /\ UNCHANGED errMessage
    /\ UNCHANGED <<resVars, cmpVars, subVars>>

\* the awaited import fulfils: return
ImportResolve(shape) ==
    /\ pkgPc = "awaiting"
    /\ probes' = SetLast("loaded", shape)
    /\ pkgResult' = ReturnValue(Exported(LastProbe.id, shape))
    /\ pkgPc' = "returned"
    /\ UNCHANGED <<caller, requested, name, type, config, possibleModules, idx,
                   pkgError, callerResult>>
    /\ UNCHANGED errMessage
    /\ UNCHANGED <<resVars, cmpVars, subVars>>

\* the awaited import rejects: the catch block
ImportReject(rejection) ==
    /\ pkgPc = "awaiting"
    /\ probes' = SetLast(rejection.why, "-")
    /\ errMessage' = Message(rejection, LastProbe.id)
    /\ IF IsModuleNotFound(Message(rejection, LastProbe.id), LastProbe.id)
       THEN /\ idx' = idx + 1
            /\ pkgPc' = "loop"
            /\ UNCHANGED pkgError
       ELSE /\ pkgError' = UnableToLoad(type, name, Message(rejection, LastProbe.id))
            /\ pkgPc' = "thrown"
            /\ UNCHANGED idx
    /\ UNCHANGED <<caller, requested, name, type, config, possibleModules,
                   pkgResult, callerResult>>
    /\ UNCHANGED <<resVars, cmpVars, subVars>>

\* the loop ran out of candidates
Exhausted ==
    /\ pkgPc = "loop"
    /\ idx > Len(possibleModules)
    /\ pkgError' = UnableToFind(type, name)
    /\ pkgPc' = "thrown"
    /\ UNCHANGED <<caller, requested, name, type, config, possibleModules, idx, probes,
                   pkgResult, callerResult>>
    /\ UNCHANGED errMessage
    /\ UNCHANGED <<resVars, cmpVars, subVars>>

\* what the caller makes of the package
CallerValue(c, pkg, cfg) ==
    CASE c = "getHandler" -> pkg
      [] c = "resolveMerger" -> Or(DefaultOf(pkg), pkg)
      [] OTHER -> New(Or(DefaultOf(pkg), pkg), cfg)

\* getPackage returned: the caller's continuation
CallerResume ==
    /\ pkgPc = "returned"
    /\ callerResult' = CallerValue(caller, pkgResult, config)
    /\ pkgPc' = "done"
    /\ UNCHANGED <<caller, requested, name, type, config, possibleModules, idx, probes,
                   pkgResult, pkgError>>
    /\ UNCHANGED errMessage
    /\ UNCHANGED <<resVars, cmpVars, subVars>>

PkgInit ==
    /\ caller = "none"
    /\ requested = <<>>
    /\ name = <<>>
    /\ type = ""
    /\ config = "undefined"
    /\ possibleModules = <<>>
    /\ idx = 0
    /\ pkgPc = "idle"
    /\ probes = <<>>
    /\ pkgResult = Undefined
    /\ pkgError = NoError
    /\ errMessage = {}
    /\ callerResult = Undefined

\* ------------------------------------------------------------------ result values
\* A value the backend (or a subscription) hands to the resolver.  `kind` says what
\* it is, `call` which backend call produced it, `via` how it was reached from that
\* call's result, `child` what lies at the returnData path inside it ("none":
\* nothing), `cause` whether the GraphQLError involved has an originalError, `ext`
\* the arguments of resolveExternalValue when the value is its result.
Value(kind, call, via, child, cause, ext) ==
    [kind |-> kind, call |-> call, via |-> via, child |-> child, cause |-> cause, ext |-> ext]

UndefinedValue == Value("undefined", 0, <<>>, "none", FALSE, {})
Null == Value("null", 0, <<>>, "none", FALSE, {})

\* What a backend call can fulfil with.
ResultShapes ==
    { [kind |-> "error", child |-> "none", cause |-> FALSE] }
    \cup { [kind |-> "gqlerror", child |-> "none", cause |-> c] : c \in BOOLEAN }
    \cup { [kind |-> k, child |-> ch, cause |-> FALSE] :
             k \in {"plain", "external"}, ch \in {"none", "plain", "external"} }
    \cup { [kind |-> k, child |-> "gqlerror", cause |-> c] :
             k \in {"plain", "external"}, c \in BOOLEAN }

BackendValue(i, shape) == Value(shape.kind, i, <<>>, shape.child, shape.cause, {})

\* v instanceof Error (a GraphQLError is an Error)
IsErrorInstance(v) == v.kind \in {"error", "gqlerror"}

\* error instanceof GraphQLError
isGraphQLError(v) == v.kind = "gqlerror"

\* isExternalObject of @graphql-tools/delegate: the value carries the sub-schema tag
isExternalObject(v) == v.kind = "external"

\* lodash get(source, path)
Get(source, path) ==
    IF path = "none" \/ source.child = "none" THEN UndefinedValue
    ELSE Value(source.child, source.call, Append(source.via, path), "none", source.cause, {})

\* result.originalError
OriginalError(e) ==
    IF e.cause THEN Value("error", e.call, Append(e.via, "originalError"), "none", FALSE, {})
    ELSE UndefinedValue

getUnpathedErrors(source) == [unpathedErrorsOf |-> source.call]
getResponseKeyFromInfo(info) == info.responseKey
getSubschema(source, responseKey) == [subschemaOf |-> source.call, key |-> responseKey]

\* resolveExternalValue of @graphql-tools/delegate: its result is known only by the
\* arguments it was called with.
resolveExternalValue(result, errors, subschema, context, info, rest) ==
    Value("reresolved", result.call, result.via, "none", FALSE,
          { [result |-> result.kind, errors |-> errors, subschema |-> subschema,
             context |-> context, info |-> info, rest |-> rest] })

resolveReturnData_NegatedTag(source, args, context, info, rest) ==
    LET result == IF IsErrorInstance(source) \/ args.returnData = "none"
                  THEN source
                  ELSE Get(source, args.returnData)
    IN  IF isGraphQLError(result) THEN OriginalError(result)
        ELSE IF ~isExternalObject(result) \/ ~isExternalObject(source) THEN result
        ELSE resolveExternalValue(result, getUnpathedErrors(source),
                 getSubschema(source, getResponseKeyFromInfo(info)), context, info, rest)

resolveReturnData_DropErrors(source, args, context, info, rest) ==
    LET result == IF IsErrorInstance(source) \/ args.returnData = "none"
                  THEN source
                  ELSE Get(source, args.returnData)
    IN  IF isGraphQLError(result) THEN OriginalError(result)
        ELSE IF isExternalObject(result) \/ ~isExternalObject(source) THEN result
        ELSE resolveExternalValue(result, [unpathedErrorsOf |-> 0],
                 getSubschema(source, getResponseKeyFromInfo(info)), context, info, rest)

resolveReturnData_DelegationFirst(source, args, context, info, rest) ==
    LET result == IF IsErrorInstance(source) \/ args.returnData = "none"
                  THEN source
                  ELSE Get(source, args.returnData)
    IN  IF isExternalObject(result) \/ ~isExternalObject(source) THEN result
        ELSE IF isGraphQLError(result) THEN OriginalError(result)
        ELSE resolveExternalValue(result, getUnpathedErrors(source),
                 getSubschema(source, getResponseKeyFromInfo(info)), context, info, rest)

resolveReturnData_AlwaysGet(source, args, context, info, rest) ==
    LET result == IF IsErrorInstance(source) THEN source ELSE Get(source, args.returnData)
    IN  IF isGraphQLError(result) THEN OriginalError(result)
        ELSE IF isExternalObject(result) \/ ~isExternalObject(source) THEN result
        ELSE resolveExternalValue(result, getUnpathedErrors(source),
                 getSubschema(source, getResponseKeyFromInfo(info)), context, info, rest)

resolveReturnData(source, args, context, info, rest) ==
    LET result == IF IsErrorInstance(source) \/ args.returnData = "none"
                  THEN source
                  ELSE Get(source, args.returnData)
    IN  IF isGraphQLError(result) THEN OriginalError(result)
        ELSE IF isExternalObject(result) \/ ~isExternalObject(source) THEN result
        ELSE resolveExternalValue(result, getUnpathedErrors(source),
                 getSubschema(source, getResponseKeyFromInfo(info)), context, info, rest)

\* ------------------------------------------------------------------ method-call resolver
Revisions == {"utils", "part_000"}
ReturnDataPaths == {"none", "path"}
Context == "context"
Info == [responseKey |-> "responseKey", returnType |-> "outputType"]

\* The descriptor's args: a static mapping of paths to templates, or (utils.ts) a
\* function of the resolver data, which may return one object or an array.
ArgsConfigs ==
    { [isFunction |-> FALSE, isArray |-> FALSE, n |-> 0] }
    \cup { [isFunction |-> TRUE, isArray |-> FALSE, n |-> 0] }
    \cup { [isFunction |-> TRUE, isArray |-> TRUE, n |-> k] : k \in 0..MaxFanOut }

StaticArgs == [isFunction |-> FALSE, isArray |-> FALSE, n |-> 0]

\* normalizeMethodArgs (utils.ts); in the earlier revision the for-in loop over
\* args, which builds one object whatever args is.  An array's elements are
\* numbered 1..n; the single object is <<0>> once cast to an array.
normalizeMethodArgs(rev, args) ==
    IF rev = "utils" /\ args.isFunction
    THEN [isArray |-> args.isArray, elems |-> [k \in 1..args.n |-> k]]
    ELSE [isArray |-> FALSE, elems |-> <<>>]

\* castArray(methodArgs)
castArray(m) == IF m.isArray THEN m.elems ELSE <<0>>

Options == [selectedFields |-> "resultSelectedFields", selectionSet |-> "resultSelectionSet",
            depth |-> "resultDepth"]

\* the trailing arguments handed to resolveReturnData
Rest(rev, m) ==
    IF rev = "utils"
    THEN << IF m.isArray THEN "outputType.ofType" ELSE "outputType" >>
    ELSE <<>>

\* what the map callback (utils.ts) or the resolver body (earlier revision) makes of
\* the awaited result
Extracted(rev, result, m, rd) ==
    IF rev = "utils" /\ IsErrorInstance(result) THEN Null
    ELSE resolveReturnData(result, [returnData |-> rd], Context, Info, Rest(rev, m))

Calls == DOMAIN apiCalls

AllFulfilled(st) == \A i \in DOMAIN st : st[i] = "fulfilled"

Pending == "pending"
Fulfilled(v) == [state |-> "fulfilled", value |-> v]
Rejected(i) == [state |-> "rejected", value |-> [rejectionOfCall |-> i]]

\* Array.isArray(methodArgs) ? results : head(results)
FieldValue(m, rs) == IF m.isArray THEN rs ELSE rs[1]

Slot_CompletionOrder(rs, i, v, order) ==
    [k \in DOMAIN rs |-> IF k = Len(order) THEN v ELSE rs[k]]

\* Promise.all keeps each promise's value at the promise's own index
Slot(rs, i, v, order) == [rs EXCEPT ![i] = v]

\* the resolver is invoked: arguments are normalised and every backend call is issued
Resolve ==
    /\ resPc = "idle"
    /\ \E rev \in Revisions, rd \in ReturnDataPaths, args \in ArgsConfigs :
        LET m == normalizeMethodArgs(rev, args)
            items == castArray(m)
        IN  /\ revision' = rev
            /\ returnData' = rd
            /\ methodArgs' = m
            /\ apiCalls' = [k \in DOMAIN items |-> [args |-> items[k], opts |-> Options]]
            /\ settled' = [k \in DOMAIN items |-> "pending"]
            /\ apiResult' = [k \in DOMAIN items |-> UndefinedValue]
            /\ results' = [k \in DOMAIN items |-> UndefinedValue]
            /\ completion' = <<>>
            /\ IF DOMAIN items = {}
               THEN /\ resPc' = "fulfilled"
                    /\ fieldResult' = Fulfilled(<<>>)
               ELSE /\ resPc' = "joining"
                    /\ fieldResult' = [state |-> Pending, value |-> <<>>]
    /\ UNCHANGED <<pkgVars, cmpVars, subVars>>

\* backend call i fulfils; its callback runs; the join completes if it was the last
ApiFulfil(i, shape) ==
    /\ resPc \in {"joining", "rejected"}
    /\ i \in Calls
    /\ settled[i] = "pending"
    /\ LET value == BackendValue(i, shape)
           order == Append(completion, i)
           rs == Slot(results, i, Extracted(revision, value, methodArgs, returnData), order)
           st == [settled EXCEPT ![i] = "fulfilled"]
       IN  /\ apiResult' = [apiResult EXCEPT ![i] = value]
           /\ results' = rs
           /\ settled' = st
           /\ completion' = order
           /\ IF resPc = "joining" /\ AllFulfilled(st)
              THEN /\ resPc' = "fulfilled"
                   /\ fieldResult' = Fulfilled(FieldValue(methodArgs, rs))
              ELSE UNCHANGED <<resPc, fieldResult>>
    /\ UNCHANGED <<revision, returnData, methodArgs, apiCalls>>
    /\ UNCHANGED <<pkgVars, cmpVars, subVars>>

\* backend call i rejects: the awaiting callback throws, Promise.all rejects
ApiReject(i) ==
    /\ resPc \in {"joining", "rejected"}
    /\ i \in Calls
    /\ settled[i] = "pending"
    /\ settled' = [settled EXCEPT ![i] = "rejected"]
    /\ completion' = Append(completion, i)
    /\ IF resPc = "joining"
       THEN /\ resPc' = "rejected"
            /\ fieldResult' = Rejected(i)
       ELSE UNCHANGED <<resPc, fieldResult>>
    /\ UNCHANGED <<revision, returnData, methodArgs, apiCalls, apiResult, results>>
    /\ UNCHANGED <<pkgVars, cmpVars, subVars>>

ResInit ==
    /\ revision = "utils"
    /\ returnData = "none"
    /\ methodArgs = [isArray |-> FALSE, elems |-> <<>>]
    /\ resPc = "idle"
    /\ apiCalls = <<>>
    /\ settled = <<>>
    /\ apiResult = <<>>
    /\ results = <<>>
    /\ completion = <<>>
    /\ fieldResult = [state |-> Pending, value |-> <<>>]

\* ------------------------------------------------------------------ compilation
\* A resolver map holds its resolvers at [type][field][member]; it is written as the
\* function from those paths <<type, field, member>> to the member's value.
TypeNames == {"Query"}
FieldNames == {"a", "b"}
SelectionSets == {"undefined", "{ id }"}

FileDescriptor == [form |-> "file", type |-> "-", field |-> "-", sel |-> "-"]

Descriptors ==
    {FileDescriptor}
    \cup [form : {"subscription"}, type : TypeNames, field : FieldNames, sel : {"-"}]
    \cup [form : {"method"}, type : TypeNames, field : FieldNames, sel : SelectionSets]

EmptyMap == [p \in {} |-> "-"]

Member(k, v) == [by |-> k, value |-> v]

\* the object literal returned for a subscription descriptor (pubsubTopic present)
SubscriptionEntry(k, d) ==
    [p \in {<<d.type, d.field, "subscribe">>, <<d.type, d.field, "resolve">>} |->
        IF p[3] = "subscribe" THEN Member(k, "withFilter") ELSE Member(k, "resolve payload")]

\* the object literal returned for a method-call descriptor
MethodEntry(k, d) ==
    [p \in {<<d.type, d.field, "selectionSet">>, <<d.type, d.field, "resolve">>} |->
        IF p[3] = "selectionSet" THEN Member(k, d.sel) ELSE Member(k, "resolve method")]

\* What importFn can resolve to for a resolvers file: whether exported.default is
\* absent, has a truthy `resolvers` member, is an object without one, or is a
\* function without one; and whether exported.resolvers is truthy.
FileShapes == [default : {"absent", "hasResolvers", "object", "function"},
               resolvers : BOOLEAN]

\* where the string branch finds the resolvers ("null": nowhere)
FoundIn(shape) ==
    IF shape.default # "absent"
    THEN IF shape.default = "hasResolvers" THEN "default.resolvers"
         ELSE IF shape.default = "object" THEN "default"
         ELSE "null"
    ELSE IF shape.resolvers THEN "resolvers"
    ELSE "null"

\* the map found there: one field resolver, at the place the file defines it
FileEntry(k, shape, t, f) ==
    IF FoundIn(shape) = "null" THEN EmptyMap
    ELSE [p \in {<<t, f, "resolve">>} |-> Member(k, FoundIn(shape))]

\* mergeDeep of @graphql-tools/utils on two resolver maps: objects are merged key by
\* key down to the members, where the later value replaces the earlier one
mergeDeep(target, source) ==
    [p \in DOMAIN target \cup DOMAIN source |->
        IF p \in DOMAIN source THEN source[p] ELSE target[p]]

RECURSIVE MergeFrom(_, _, _)
MergeFrom(acc, list, k) ==
    IF k > Len(list) THEN acc ELSE MergeFrom(mergeDeep(acc, list[k]), list, k + 1)

\* mergeResolvers of @graphql-tools/merge: nothing for an empty list, the map itself
\* for a single one, otherwise the maps merged deeply in list order
mergeResolvers(list) ==
    IF Len(list) = 0 THEN EmptyMap
    ELSE IF Len(list) = 1 THEN list[1]
    ELSE MergeFrom(EmptyMap, list, 1)

RECURSIVE SeqOfIndices(_, _)
SeqOfIndices(S, n) ==
    IF n = 0 THEN <<>>
    ELSE LET rest == SeqOfIndices(S, n - 1) IN IF n \in S THEN Append(rest, n) ELSE rest

AllDone(ts) == \A k \in DOMAIN ts : ts[k] = "done"

\* resolveAdditionalResolvers is called: every descriptor's task starts; the tasks of
\* object descriptors complete at once, those of file descriptors await importFn
Compile ==
    /\ cmpPc = "idle"
    /\ \E ds \in SeqsUpTo(Descriptors, MaxDescriptors) :
        LET objects == {k \in DOMAIN ds : ds[k].form # "file"}
            ts == [k \in DOMAIN ds |-> IF k \in objects THEN "done" ELSE "pending"]
            loaded == [k \in DOMAIN ds |->
                         IF ds[k].form = "subscription" THEN SubscriptionEntry(k, ds[k])
                         ELSE IF ds[k].form = "method" THEN MethodEntry(k, ds[k])
                         ELSE EmptyMap]
        IN  /\ descriptors' = ds
            /\ taskState' = ts
            /\ loadedResolvers' = loaded
            /\ fileExports' = [k \in DOMAIN ds |-> "-"]
            /\ finished' = SeqOfIndices(objects, Len(ds))
            /\ IF AllDone(ts)
               THEN /\ cmpPc' = "done"
                    /\ resolverMap' = mergeResolvers(loaded)
               ELSE /\ cmpPc' = "joining"
                    /\ UNCHANGED resolverMap
    /\ UNCHANGED <<warned, cmpError>>
    /\ UNCHANGED <<pkgVars, resVars, subVars>>

\* the import of descriptor k's file fulfils: the string branch runs; the join
\* completes if this was the last task
FileLoad(k, shape, t, f) ==
    /\ cmpPc \in {"joining", "failed"}
    /\ k \in DOMAIN descriptors
    /\ taskState[k] = "pending"
    /\ LET ts == [taskState EXCEPT ![k] = "done"]
           loaded == [loadedResolvers EXCEPT ![k] = FileEntry(k, shape, t, f)]
       IN  /\ taskState' = ts
           /\ loadedResolvers' = loaded
           /\ fileExports' = [fileExports EXCEPT ![k] = shape]
           /\ finished' = Append(finished, k)
           /\ warned' = IF FoundIn(shape) = "null" THEN warned \cup {k} ELSE warned
           /\ IF cmpPc = "joining" /\ AllDone(ts)
              THEN /\ cmpPc' = "done"
                   /\ resolverMap' = mergeResolvers(loaded)
              ELSE UNCHANGED <<cmpPc, resolverMap>>
    /\ UNCHANGED <<descriptors, cmpError>>
    /\ UNCHANGED <<pkgVars, resVars, subVars>>

FileFail_Skip(k) ==
    /\ cmpPc \in {"joining", "failed"}
    /\ k \in DOMAIN descriptors
    /\ taskState[k] = "pending"
    /\ LET ts == [taskState EXCEPT ![k] = "failed"]
       IN  /\ taskState' = ts
           /\ finished' = Append(finished, k)
           /\ IF cmpPc = "joining" /\ \A j \in DOMAIN ts : ts[j] # "pending"
              THEN /\ cmpPc' = "done"
                   /\ resolverMap' = mergeResolvers(loadedResolvers)
              ELSE UNCHANGED <<cmpPc, resolverMap>>
    /\ UNCHANGED <<descriptors, loadedResolvers, fileExports, cmpError, warned>>
    /\ UNCHANGED <<pkgVars, resVars, subVars>>

\* the import of descriptor k's file rejects: Promise.all rejects with the first
\* rejection there is
FileFail(k) ==
    /\ cmpPc \in {"joining", "failed"}
    /\ k \in DOMAIN descriptors
    /\ taskState[k] = "pending"
    /\ taskState' = [taskState EXCEPT ![k] = "failed"]
    /\ finished' = Append(finished, k)
    /\ cmpPc' = "failed"
    /\ cmpError' = IF cmpPc = "joining" THEN k ELSE cmpError
    /\ UNCHANGED <<descriptors, loadedResolvers, fileExports, warned, resolverMap>>
    /\ UNCHANGED <<pkgVars, resVars, subVars>>

CmpInit ==
    /\ descriptors = <<>>
    /\ cmpPc = "idle"
    /\ taskState = <<>>
    /\ loadedResolvers = <<>>
    /\ fileExports = <<>>
    /\ cmpError = 0
    /\ finished = <<>>
    /\ warned = {}
    /\ resolverMap = EmptyMap

\* ------------------------------------------------------------------ subscriptions
\* A template is a sequence of literal parts and placeholders; a topic is a sequence
\* of literal parts.
Ids == {"7", "42"}
Templates == { <<"topic/", "{args.id}">>, <<"topic">> }
Topics == { <<"topic/", "7">>, <<"topic/", "42">>, <<"topic">> }
FilterBys == {"none", "expr"}

ResolverData(args) == [root |-> "root", args |-> args, context |-> Context, info |-> Info]

stringInterpolatorParse_NoData(template, resolverData) == template

\* stringInterpolator.parse(template, resolverData): every placeholder is replaced by
\* the value it names in the resolver data
stringInterpolatorParse(template, resolverData) ==
    [k \in DOMAIN template |->
        IF template[k] = "{args.id}" THEN resolverData.args.id ELSE template[k]]

\* pubsub.asyncIterator(topic): an iterator over what is published on that topic from
\* now on
asyncIterator(topic, args) ==
    [args |-> args, topic |-> topic, since |-> Len(published), events |-> <<>>]

\* the payload of the n-th publish
Payload(n) == BackendValue(n, [kind |-> "plain", child |-> "plain", cause |-> FALSE])

\* the filter function given to withFilter: filterBy ? eval(filterBy) : true, where
\* the evaluated expression may yield anything
FilterPasses(evaluated) == IF filterBy # "none" THEN evaluated ELSE TRUE

\* resolveAdditionalResolvers compiled one subscription descriptor
CompileSubscription ==
    /\ subPc = "idle"
    /\ \E template \in Templates, f \in FilterBys, rd \in ReturnDataPaths :
        /\ pubsubTopic' = template
        /\ filterBy' = f
        /\ subReturnData' = rd
    /\ subPc' = "ready"
    /\ UNCHANGED <<subscribers, published>>
    /\ UNCHANGED <<pkgVars, resVars, cmpVars>>

\* a subscription request: the function given to withFilter builds the topic from the
\* request's own resolver data and asks the bus for an iterator on it
Subscribe(id) ==
    /\ subPc = "ready"
    /\ Len(subscribers) < MaxSubscribers
    /\ LET args == [id |-> id]
           topic == stringInterpolatorParse(pubsubTopic, ResolverData(args))
       IN  subscribers' = Append(subscribers, asyncIterator(topic, args))
    /\ UNCHANGED <<subPc, pubsubTopic, filterBy, subReturnData, published>>
    /\ UNCHANGED <<pkgVars, resVars, cmpVars>>

\* something is published on a topic: every iterator on that topic receives the
\* payload, withFilter drops it where the filter fails, and the field's resolve
\* extracts the returnData from what is left
Publish(topic, evaluated) ==
    /\ subPc = "ready"
    /\ Len(published) < MaxPublishes
    /\ LET n == Len(published) + 1
           event == resolveReturnData(Payload(n), [returnData |-> subReturnData],
                                      Context, Info, <<>>)
       IN  /\ published' = Append(published, [topic |-> topic, payload |-> Payload(n)])
           /\ subscribers' =
                 [s \in DOMAIN subscribers |->
                    IF subscribers[s].topic = topic /\ FilterPasses(evaluated[s])
                    THEN [subscribers[s] EXCEPT !.events = Append(@, event)]
                    ELSE subscribers[s]]
    /\ UNCHANGED <<subPc, pubsubTopic, filterBy, subReturnData>>
    /\ UNCHANGED <<pkgVars, resVars, cmpVars>>

SubInit ==
    /\ subPc = "idle"
    /\ pubsubTopic = <<>>
    /\ filterBy = "none"
    /\ subReturnData = "none"
    /\ subscribers = <<>>
    /\ published = <<>>

\* ------------------------------------------------------------------ specifications
Init == PkgInit /\ ResInit /\ CmpInit /\ SubInit

\* the package search
PackageNext ==
    \/ getHandler
    \/ resolveCache
    \/ resolvePubSub
    \/ resolveMerger
    \/ ResolveDefault
    \/ ImportCall
    \/ \E shape \in ExportShapes : ImportResolve(shape)
    \/ \E rejection \in Rejections : ImportReject(rejection)
    \/ Exhausted
    \/ CallerResume

\* one invocation of a method-call resolver
ResolverNext ==
    \/ Resolve
    \/ \E i \in DOMAIN apiCalls, shape \in ResultShapes : ApiFulfil(i, shape)
    \/ \E i \in DOMAIN apiCalls : ApiReject(i)

\* one compilation of a list of descriptors
CompileNext ==
    \/ Compile
    \/ \E k \in DOMAIN descriptors, shape \in FileShapes, t \in TypeNames, f \in FieldNames :
          FileLoad(k, shape, t, f)
    \/ \E k \in DOMAIN descriptors : FileFail(k)

\* one subscription field, its subscribers and the bus
SubscriptionNext ==
    \/ CompileSubscription
    \/ \E id \in Ids : Subscribe(id)
    \/ \E topic \in Topics, evaluated \in [1..MaxSubscribers -> BOOLEAN] :
          Publish(topic, evaluated)

SpecPackage == Init /\ [][PackageNext]_vars
SpecResolver == Init /\ [][ResolverNext]_vars
SpecCompile == Init /\ [][CompileNext]_vars
SpecSubscription == Init /\ [][SubscriptionNext]_vars

\* The operations share no state: the whole module is explored one operation at a
\* time.
Next ==
    \/ resPc = "idle" /\ cmpPc = "idle" /\ subPc = "idle" /\ PackageNext
    \/ pkgPc = "idle" /\ cmpPc = "idle" /\ subPc = "idle" /\ ResolverNext
    \/ pkgPc = "idle" /\ resPc = "idle" /\ subPc = "idle" /\ CompileNext
    \/ pkgPc = "idle" /\ resPc = "idle" /\ cmpPc = "idle" /\ SubscriptionNext
Spec == Init /\ [][Next]_vars

\* ------------------------------------------------------------------ claims: package search
Failed == {"missing", "broken"}

GetPackageReturned == pkgPc \in {"returned", "done"}

\* the exports of the candidate whose load succeeded
LoadedExport == Exported(LastProbe.id, LastProbe.shape)

\* C1: within one call of getPackage the loader is invoked on the candidates in list
\* order, one at a time (every probe before the latest one has failed, only the
\* latest can be in flight), and the call returns the export of the first candidate
\* that loads: a loaded probe is always the last probe there is, so nothing after it
\* is ever probed.
C1_ProbesInOrderFirstSuccess ==
    /\ \A k \in DOMAIN probes :
        /\ probes[k].at = k
        /\ probes[k].id = possibleModules[k]
        /\ k < Len(probes) => probes[k].outcome \in Failed
        /\ probes[k].outcome = "pending" => pkgPc = "awaiting"
        /\ probes[k].outcome = "loaded" => GetPackageReturned
    /\ GetPackageReturned =>
        /\ Len(probes) >= 1
        /\ LastProbe.outcome = "loaded"
        /\ pkgResult.of = LastProbe.id
        /\ pkgResult \in {LoadedExport, DefaultOf(LoadedExport), ParserOf(LoadedExport)}

\* C1 witness: the third candidate loaded after two failed probes.
C1_Witness ==
    /\ pkgPc = "returned"
    /\ Len(probes) = 3
    /\ probes[1].outcome = "missing"
    /\ probes[2].outcome = "missing"

\* C2: a module-not-found failure is swallowed and the search goes on to the next
\* candidate (or ends "not found" after the last one); any other failure of candidate
\* i aborts at once with the wrapped error naming type and name, and i stays the
\* last probe for good.
C2_NotFoundSwallowedOtherFatal ==
    \A k \in DOMAIN probes :
        /\ probes[k].outcome = "missing" =>
            \/ k < Len(probes)
            \/ pkgPc = "loop" /\ idx = k + 1
            \/ /\ pkgPc = "thrown"
               /\ k = Len(possibleModules)
               /\ pkgError.text = "Unable to find"
        /\ probes[k].outcome = "broken" =>
            /\ k = Len(probes)
            /\ pkgPc = "thrown"
            /\ pkgError.text = "Unable to load"
            /\ pkgError.type = type
            /\ pkgError.name = name

\* C2 witness: the search aborted on the second candidate with candidates left.
C2_Witness ==
    /\ pkgPc = "thrown"
    /\ pkgError.text = "Unable to load"
    /\ Len(probes) = 2
    /\ probes[1].outcome = "missing"
    /\ Len(probes) < Len(possibleModules)

\* C3 (as claimed): when every candidate is missing, resolution fails after all of
\* them were probed, with a "not found" error naming the category and the name as
\* the caller supplied it.
C3_NotFoundNamesRequestedName ==
    /\ (pkgPc = "thrown" /\ pkgError.text = "Unable to find") =>
        /\ Len(probes) = Len(possibleModules)
        /\ \A k \in DOMAIN probes : probes[k].outcome = "missing"
        /\ pkgError.type = type
        /\ pkgError.name = requested
    /\ ( /\ Len(probes) = Len(possibleModules)
         /\ possibleModules # <<>>
         /\ \A k \in DOMAIN probes : probes[k].outcome = "missing"
         /\ pkgPc # "loop" ) =>
        (pkgPc = "thrown" /\ pkgError.text = "Unable to find")

\* C4: in every category, when the one candidate that exists has a default export,
\* getPackage returns that default export whatever the position of the candidate;
\* getHandler returns it, resolveMerger returns it (or its own default member), and
\* resolveCache / resolvePubSub return an instance constructed from it.
C4_DefaultExportWhateverSpelling ==
    ( /\ GetPackageReturned
      /\ LastProbe.shape.default # "absent"
      /\ \A k \in 1..(Len(probes) - 1) : probes[k].outcome = "missing" ) =>
        LET d == DefaultOf(LoadedExport)
            base == IF Truthy(DefaultOf(d)) THEN DefaultOf(d) ELSE d
        IN  /\ pkgResult = d
            /\ pkgResult.path = <<"default">>
            /\ pkgPc = "done" =>
                CASE caller = "getHandler" -> callerResult = d
                  [] caller = "resolveMerger" -> callerResult = base
                  [] OTHER -> callerResult = [instanceOf |-> base, config |-> config]

\* C4 witness: a cache found only under the last spelling (the absolute path).
C4_Witness ==
    /\ pkgPc = "done"
    /\ caller = "resolveCache"
    /\ Len(probes) = Len(possibleModules)
    /\ LastProbe.shape.default = "plain"
    /\ callerResult.instanceOf.path = <<"default">>

\* C5 (as claimed): the returned value is the default export; the parser export is a
\* fallback for the handler category only; otherwise the raw exports.
C5_ParserFallbackHandlerOnly ==
    GetPackageReturned =>
        pkgResult =
            IF LastProbe.shape.default # "absent" THEN DefaultOf(LoadedExport)
            ELSE IF type = "handler" /\ LastProbe.shape.parser # "absent"
                 THEN ParserOf(LoadedExport)
            ELSE LoadedExport

\* C5 (amended): the returned value is the default export, else the parser export
\* (in every category), else the raw exports.
C5_ParserFallbackEveryCategory ==
    GetPackageReturned =>
        pkgResult =
            IF LastProbe.shape.default # "absent" THEN DefaultOf(LoadedExport)
            ELSE IF LastProbe.shape.parser # "absent" THEN ParserOf(LoadedExport)
            ELSE LoadedExport

\* C5 witness: a cache module without default export yields its parser export.
C5_Witness ==
    /\ pkgPc = "returned"
    /\ type = "cache"
    /\ LastProbe.shape.default = "absent"
    /\ pkgResult.path = <<"parser">>

Configurable == {"resolveCache", "resolvePubSub", "resolveMerger"}

\* no backend was configured: the call was made without a name
ConfigAbsent == caller \in Configurable /\ requested = <<>>

\* C16: without configuration resolveCache, resolvePubSub and resolveMerger return
\* their built-in default (an in-process LRU cache, an in-process pub/sub bus, the
\* stitching merger) and importFn is not called at all; with a configured name the
\* candidate search of getPackage runs and the result comes from the module that
\* importFn loaded.
C16_DefaultsWithoutLoader ==
    /\ ConfigAbsent =>
        /\ pkgPc = "builtin"
        /\ probes = <<>>
        /\ possibleModules = <<>>
        /\ caller = "resolveCache" =>
              callerResult = [instanceOf |-> [builtin |-> "InMemoryLRUCache"],
                              config |-> "undefined"]
        /\ caller = "resolvePubSub" =>
              callerResult = [instanceOf |-> [builtin |-> "PubSub"],
                              config |-> "eventEmitter"]
        /\ caller = "resolveMerger" => callerResult = [builtin |-> "StitchingMerger"]
    /\ (caller \in Configurable /\ requested # <<>>) =>
        /\ pkgPc # "builtin"
        /\ Len(possibleModules) >= 8
        /\ pkgPc = "done" =>
            /\ Len(probes) >= 1
            /\ LastProbe.outcome = "loaded"
            /\ caller = "resolveMerger" => callerResult.of = LastProbe.id
            /\ caller # "resolveMerger" =>
                /\ callerResult.instanceOf.of = LastProbe.id
                /\ callerResult.config = config

\* C16 witness: resolveCache without configuration returned the built-in cache and
\* no module was probed.
C16_Witness ==
    /\ pkgPc = "builtin"
    /\ caller = "resolveCache"
    /\ probes = <<>>
    /\ callerResult.instanceOf = [builtin |-> "InMemoryLRUCache"]

IsScoped(id) == Len(id) >= 1 /\ id[1] = "@graphql-mesh/"

\* a call of getPackage is under way or over
Searching == possibleModules # <<>>

\* C18: the candidate list is, in this order, the three scoped forms of the cased
\* name and category, the cased name, name-category, category-name, the category,
\* then the raw name if and only if the name contains a dash, and last the name
\* resolved against the working directory; the scoped candidates come before every
\* unscoped one, the absolute path is last, and the probes follow the list.
C18_CandidateListOrder ==
    Searching =>
        LET n == paramCase(name)
            c == <<type>>
            list == possibleModules
            last == Len(list)
        IN  /\ list[1] = <<"@graphql-mesh/">> \o n
            /\ list[2] = <<"@graphql-mesh/">> \o n \o <<"-">> \o c
            /\ list[3] = <<"@graphql-mesh/">> \o c \o <<"-">> \o n
            /\ list[4] = n
            /\ list[5] = n \o <<"-">> \o c
            /\ list[6] = c \o <<"-">> \o n
            /\ list[7] = c
            /\ last = IF Includes(name, "-") THEN 9 ELSE 8
            /\ last = 9 => list[8] = name
            /\ list[last] = <<"{cwd}/">> \o name
            /\ \A k \in DOMAIN list : IsScoped(list[k]) <=> k <= 3
            /\ \A k \in DOMAIN probes : probes[k].id = list[k]

\* C18 witness: a name with a dash and a capital: nine candidates, the raw name the
\* eighth, and all of them probed down to the absolute path.
C18_Witness ==
    /\ Searching
    /\ \E i, j \in DOMAIN name : name[i] = "-" /\ name[j] = "B"
    /\ Len(possibleModules) = 9
    /\ possibleModules[8] = name
    /\ possibleModules[4] # name
    /\ Len(probes) = 9
    /\ LastProbe.id = <<"{cwd}/">> \o name

\* the catch block has just run on the latest probe
Caught == Len(probes) >= 1 /\ LastProbe.outcome \in Failed

\* C19: a failed load is swallowed (the search goes on, or ends "not found" after
\* the last candidate) exactly when its message contains "Cannot find module" naming
\* the identifier being probed, or contains "Could not locate module"; any other
\* failure, a "Cannot find module" naming another identifier included, aborts the
\* search with the "Unable to load" error wrapping that message.
C19_NotFoundByMessage ==
    Caught =>
        LET id == LastProbe.id
            notFound == \/ [text |-> "Cannot find module", id |-> id] \in errMessage
                        \/ [text |-> "Could not locate module", id |-> <<>>] \in errMessage
            swallowed == \/ pkgPc = "loop" /\ idx = LastProbe.at + 1
                         \/ /\ pkgPc = "thrown"
                            /\ pkgError = UnableToFind(type, name)
                            /\ LastProbe.at = Len(possibleModules)
            aborted == /\ pkgPc = "thrown"
                       /\ pkgError.text = "Unable to load"
                       /\ pkgError.type = type
                       /\ pkgError.name = name
                       /\ pkgError.cause = errMessage
        IN  /\ notFound <=> swallowed
            /\ ~notFound <=> aborted

\* C19 witness: the second candidate is there but one of its own imports is missing:
\* the message says "Cannot find module" of another identifier and the search aborts.
C19_Witness ==
    /\ Caught
    /\ Len(probes) = 2
    /\ errMessage = {[text |-> "Cannot find module", id |-> <<"{dependency}">>]}
    /\ pkgPc = "thrown"
    /\ pkgError.text = "Unable to load"

\* ------------------------------------------------------------------ claims: resolver
FanOut == resPc # "idle" /\ revision = "utils" /\ methodArgs.isArray

ScalarCall == resPc # "idle" /\ ~methodArgs.isArray

\* C6: with an array of n arguments one backend call is issued per element, and the
\* output is an array of length n whose i-th element is what was extracted from the
\* result of the i-th call, whatever the order of completion; the resolver fulfils
\* once all n calls have fulfilled.
C6_FanOutKeepsInputOrder ==
    FanOut =>
        /\ DOMAIN apiCalls = DOMAIN methodArgs.elems
        /\ \A i \in DOMAIN apiCalls :
            apiCalls[i].args = methodArgs.elems[i] /\ apiCalls[i].opts = Options
        /\ AllFulfilled(settled) => resPc = "fulfilled"
        /\ resPc = "fulfilled" =>
            /\ fieldResult.state = "fulfilled"
            /\ DOMAIN fieldResult.value = DOMAIN methodArgs.elems
            /\ \A i \in DOMAIN apiCalls :
                /\ fieldResult.value[i] =
                       Extracted(revision, apiResult[i], methodArgs, returnData)
                /\ fieldResult.value[i].call \in {0, i}

\* C6 witness: two calls completed in reverse order, the output is in input order.
C6_Witness ==
    /\ FanOut
    /\ resPc = "fulfilled"
    /\ completion = <<2, 1>>
    /\ fieldResult.value[1].call = 1
    /\ fieldResult.value[2].call = 2

\* C7 (as claimed): in fan-out the field never fails; an element whose call rejected
\* or returned an error is null in the output and the other elements are what was
\* extracted from their calls.
C7_FailedElementIsNull ==
    FanOut =>
        /\ resPc # "rejected"
        /\ \A i \in DOMAIN settled : settled[i] = "rejected" => results[i] = Null
        /\ resPc = "fulfilled" =>
            \A i \in DOMAIN apiCalls :
                fieldResult.value[i] =
                    IF IsErrorInstance(apiResult[i]) THEN Null
                    ELSE Extracted(revision, apiResult[i], methodArgs, returnData)

\* C8 (as claimed, utils.ts): with scalar arguments exactly one backend call is
\* issued, and a failed call (rejected, or fulfilled with an Error instance) makes the
\* field fail: the resolver rejects or hands back an Error, never null or another
\* non-error value.
C8_ScalarFailurePropagates ==
    (ScalarCall /\ revision = "utils") =>
        /\ Len(apiCalls) = 1
        /\ settled[1] = "rejected" => resPc = "rejected"
        /\ (settled[1] = "fulfilled" /\ IsErrorInstance(apiResult[1])) =>
            /\ resPc = "fulfilled"
            /\ IsErrorInstance(fieldResult.value)

\* the extractor ran on the result of call i
ExtractorApplied(i) ==
    /\ settled[i] = "fulfilled"
    /\ revision = "part_000" \/ ~IsErrorInstance(apiResult[i])

\* C10 (as claimed): whenever the source is an Error instance or no returnData path
\* is given, the extractor returns the source itself, whatever its kind.
C10_IdentityWithoutPath ==
    \A i \in DOMAIN settled :
        (ExtractorApplied(i) /\ (IsErrorInstance(apiResult[i]) \/ returnData = "none")) =>
            results[i] = apiResult[i]

\* C10 (amended): whenever the source is an Error instance or no returnData path is
\* given, the extractor returns the source itself, except that a GraphQL-level error
\* is replaced by its originalError (undefined when it has none).
C10_IdentityExceptGraphQLError ==
    \A i \in DOMAIN settled :
        (ExtractorApplied(i) /\ (IsErrorInstance(apiResult[i]) \/ returnData = "none")) =>
            results[i] = IF isGraphQLError(apiResult[i]) THEN OriginalError(apiResult[i])
                         ELSE apiResult[i]

\* C10 witness: a delegated object with something at the path, extracted without a
\* returnData path, comes back unchanged.
C10_Witness ==
    /\ resPc = "fulfilled"
    /\ returnData = "none"
    /\ 1 \in DOMAIN settled
    /\ ExtractorApplied(1)
    /\ apiResult[1].kind = "external"
    /\ apiResult[1].child = "plain"
    /\ results[1] = apiResult[1]

\* the value the extractor's first statement yields for call i: the source itself,
\* or what lies at the returnData path
ExtractedValue(i) ==
    IF IsErrorInstance(apiResult[i]) \/ returnData = "none"
    THEN apiResult[i]
    ELSE Get(apiResult[i], returnData)

\* C11 (as claimed): if the extracted value (not a GraphQL-level error) is not tagged
\* as delegated, or the source was not delegated, the extractor returns the extracted
\* value as it is, and resolveExternalValue is not called.
C11_AsIsWhenUntaggedOrPlainSource ==
    \A i \in DOMAIN settled :
        ( /\ ExtractorApplied(i)
          /\ ~isGraphQLError(ExtractedValue(i))
          /\ ~isExternalObject(ExtractedValue(i)) \/ ~isExternalObject(apiResult[i]) ) =>
            /\ results[i] = ExtractedValue(i)
            /\ results[i].ext = {}

\* C11 (amended): if the extracted value (not a GraphQL-level error) is itself tagged
\* as delegated, or the source was not delegated, the extractor returns the extracted
\* value as it is, and resolveExternalValue is not called.
C11_AsIsWhenTaggedOrPlainSource ==
    \A i \in DOMAIN settled :
        ( /\ ExtractorApplied(i)
          /\ ~isGraphQLError(ExtractedValue(i))
          /\ isExternalObject(ExtractedValue(i)) \/ ~isExternalObject(apiResult[i]) ) =>
            /\ results[i] = ExtractedValue(i)
            /\ results[i].ext = {}

\* C11 witness: a delegated object found by path inside a delegated source comes
\* back as it is.
C11_Witness ==
    /\ resPc = "fulfilled"
    /\ returnData = "path"
    /\ 1 \in DOMAIN settled
    /\ ExtractorApplied(1)
    /\ apiResult[1].kind = "external"
    /\ apiResult[1].child = "external"
    /\ results[1].kind = "external"
    /\ results[1].via = <<"path">>
    /\ results[1].ext = {}

\* the extractor called resolveExternalValue for call i
Reresolved(i) == results[i].kind = "reresolved"

\* the source of call i is delegated and what was extracted from it is neither
\* delegated nor a GraphQL-level error
LostTag(i) ==
    /\ ExtractorApplied(i)
    /\ isExternalObject(apiResult[i])
    /\ ~isExternalObject(ExtractedValue(i))
    /\ ~isGraphQLError(ExtractedValue(i))

\* C12: whenever the source is delegated and the value extracted from it is neither
\* delegated nor a GraphQL-level error, the result is that of resolveExternalValue
\* called with the extracted value, the unpathed errors of the source, the sub-schema
\* of the source under the response key of info, and the resolver's context and
\* info; resolveExternalValue is called in no other case.
C12_ProvenanceReestablished ==
    \A i \in DOMAIN settled :
        /\ LostTag(i) =>
            /\ Reresolved(i)
            /\ results[i].call = ExtractedValue(i).call
            /\ results[i].via = ExtractedValue(i).via
            /\ \A e \in results[i].ext :
                /\ e.result = ExtractedValue(i).kind
                /\ e.errors = [unpathedErrorsOf |-> i]
                /\ e.subschema = [subschemaOf |-> i, key |-> Info.responseKey]
                /\ e.context = Context
                /\ e.info = Info
            /\ Cardinality(results[i].ext) = 1
        /\ Reresolved(i) => LostTag(i)

\* C12 witness: a plain value found by path inside a delegated source was re-resolved
\* with the errors and the sub-schema of that source.
C12_Witness ==
    /\ resPc = "fulfilled"
    /\ returnData = "path"
    /\ 1 \in DOMAIN settled
    /\ LostTag(1)
    /\ apiResult[1].child = "plain"
    /\ Reresolved(1)
    /\ \E e \in results[1].ext : e.errors = [unpathedErrorsOf |-> 1]

\* C13: whenever the value extracted is a GraphQL-level error, the extractor returns
\* its originalError (undefined when it has none), never the wrapper and never a
\* re-resolved value, whether or not the source is delegated.
C13_GraphQLErrorUnwrappedFirst ==
    \A i \in DOMAIN settled :
        (ExtractorApplied(i) /\ isGraphQLError(ExtractedValue(i))) =>
            /\ results[i] = OriginalError(ExtractedValue(i))
            /\ ~isGraphQLError(results[i])
            /\ ~Reresolved(i)
            /\ ExtractedValue(i).cause =>
                /\ results[i].kind = "error"
                /\ results[i].via = Append(ExtractedValue(i).via, "originalError")

\* C13 witness: a GraphQL-level error found by path inside a delegated source was
\* unwrapped to its cause and not re-resolved.
C13_Witness ==
    /\ resPc = "fulfilled"
    /\ returnData = "path"
    /\ 1 \in DOMAIN settled
    /\ ExtractorApplied(1)
    /\ apiResult[1].kind = "external"
    /\ apiResult[1].child = "gqlerror"
    /\ apiResult[1].cause
    /\ results[1].kind = "error"
    /\ results[1].via = <<"path", "originalError">>

\* resolveExternalValue takes info.returnType when it is given no return type: a
\* value re-resolved without one is the value re-resolved with the field's own
WithDefaultReturnType(v) ==
    [v EXCEPT !.ext = { [e EXCEPT !.rest = IF e.rest = <<>> THEN <<Info.returnType>> ELSE e.rest]
                        : e \in v.ext }]

\* C20 (as claimed): on a scalar call (a static args mapping always yields one) both
\* revisions issue the same single backend call with the same arguments and options,
\* and whatever the outcome of that call, the field result of the revision that ran
\* is the field result either revision computes for that outcome.
C20_RevisionsAgreeOnScalar ==
    ScalarCall =>
        /\ Len(apiCalls) = 1
        /\ apiCalls[1] = [args |-> 0, opts |-> Options]
        /\ settled[1] = "rejected" => fieldResult = Rejected(1)
        /\ settled[1] = "fulfilled" =>
            /\ resPc = "fulfilled"
            /\ \A rev \in Revisions :
                  WithDefaultReturnType(fieldResult.value) =
                      WithDefaultReturnType(
                          Extracted(rev, apiResult[1], normalizeMethodArgs(rev, StaticArgs),
                                    returnData))

\* ------------------------------------------------------------------ claims: compilation
\* the entry of map m at [t][f]
Entry(m, t, f) == [p \in {q \in DOMAIN m : q[1] = t /\ q[2] = f} |-> m[p]]

HasEntry(m, t, f) == \E q \in DOMAIN m : q[1] = t /\ q[2] = f

\* C9 (as claimed): when the first and the second of two descriptors both have an
\* entry at [type][field], the compiled map's entry there is exactly the second's.
C9_SecondEntryReplacesFirst ==
    (cmpPc = "done" /\ Len(descriptors) = 2) =>
        \A t \in TypeNames, f \in FieldNames :
            (HasEntry(loadedResolvers[1], t, f) /\ HasEntry(loadedResolvers[2], t, f)) =>
                Entry(resolverMap, t, f) = Entry(loadedResolvers[2], t, f)

\* where the three-step search of the file's exports would find the resolvers:
\* exported.default.resolvers, then exported.default if it is an object, then
\* exported.resolvers ("null": in none of the three)
FirstOfThree(shape) ==
    IF shape.default = "hasResolvers" THEN "default.resolvers"
    ELSE IF shape.default = "object" THEN "default"
    ELSE IF shape.resolvers THEN "resolvers"
    ELSE "null"

FileTaskDone(k) == descriptors[k].form = "file" /\ taskState[k] = "done"

\* C14 (as claimed): a file descriptor contributes the first of
\* exported.default.resolvers, exported.default (if an object) and exported.resolvers
\* that is found; it contributes an empty map (with a warning, the compilation going
\* on) only if none of the three is found.
C14_FirstOfThreeFound ==
    \A k \in DOMAIN descriptors :
        FileTaskDone(k) =>
            LET found == FirstOfThree(fileExports[k])
            IN  /\ found # "null" =>
                    /\ loadedResolvers[k] # EmptyMap
                    /\ \A p \in DOMAIN loadedResolvers[k] :
                           loadedResolvers[k][p] = Member(k, found)
                    /\ k \notin warned
                /\ found = "null" =>
                    /\ loadedResolvers[k] = EmptyMap
                    /\ k \in warned
                    /\ cmpError # k

\* the first descriptor whose load failed
FirstFailed == CHOOSE k \in DOMAIN finished :
                  /\ taskState[finished[k]] = "failed"
                  /\ \A j \in 1..(k - 1) : taskState[finished[j]] # "failed"

AnyFailed == \E k \in DOMAIN taskState : taskState[k] = "failed"

\* C15: the compilation is a join.  A merged map is returned only when every
\* descriptor's task has completed successfully, and it is the merge of all the
\* contributions; while a task is pending nothing is returned; as soon as one file
\* fails to load the compilation has failed with that (the first) failure, and no
\* map is returned then or later, whatever the other descriptors contributed.
C15_JoinAllOrNothing ==
    /\ cmpPc = "done" =>
        /\ AllDone(taskState)
        /\ Len(finished) = Len(descriptors)
        /\ cmpError = 0
        /\ DOMAIN resolverMap = UNION {DOMAIN loadedResolvers[k] : k \in DOMAIN descriptors}
    /\ cmpPc = "joining" =>
        /\ \E k \in DOMAIN taskState : taskState[k] = "pending"
        /\ ~AnyFailed
        /\ resolverMap = EmptyMap
    /\ AnyFailed =>
        /\ cmpPc = "failed"
        /\ cmpError = finished[FirstFailed]
        /\ resolverMap = EmptyMap
    /\ cmpPc = "failed" => AnyFailed

\* C15 witness: of two descriptors the first one's file loaded with resolvers and the
\* second one's file failed: the compilation failed and returned no map.
C15_Witness ==
    /\ cmpPc = "failed"
    /\ Len(descriptors) = 2
    /\ taskState = <<"done", "failed">>
    /\ loadedResolvers[1] # EmptyMap
    /\ cmpError = 2
    /\ resolverMap = EmptyMap

\* ------------------------------------------------------------------ claims: subscriptions
\* the publishes on topic t that came after subscriber s subscribed
PublishedSince(s, t) ==
    {n \in DOMAIN published : n > subscribers[s].since /\ published[n].topic = t}

\* C17: with pubsubTopic "topic/{args.id}" and no filterBy every subscription request
\* listens on exactly the topic built from its own args.id, and has received one
\* event for each publish on that topic since it subscribed and nothing else: a
\* publish on topic/42 reaches the subscriber with id 42 once and the one with id 7
\* not at all.
C17_TopicFromOwnArguments ==
    (subPc = "ready" /\ pubsubTopic = <<"topic/", "{args.id}">> /\ filterBy = "none") =>
        \A s \in DOMAIN subscribers :
            LET own == <<"topic/", subscribers[s].args.id>>
            IN  /\ subscribers[s].topic = own
                /\ Len(subscribers[s].events) = Cardinality(PublishedSince(s, own))
                /\ \A e \in DOMAIN subscribers[s].events :
                       subscribers[s].events[e].call \in PublishedSince(s, own)

\* C17 witness: subscribers with id 42 and id 7, then one publish on topic/42: one
\* event for the first, none for the second.
C17_Witness ==
    /\ pubsubTopic = <<"topic/", "{args.id}">>
    /\ filterBy = "none"
    /\ Len(subscribers) = 2
    /\ subscribers[1].args.id = "42"
    /\ subscribers[2].args.id = "7"
    /\ subscribers[1].since = 0
    /\ subscribers[2].since = 0
    /\ Len(published) = 1
    /\ published[1].topic = <<"topic/", "42">>
    /\ Len(subscribers[1].events) = 1
    /\ Len(subscribers[2].events) = 0

====
